---- MODULE Spec2Model ----
(***************************************************************************)
(* Model of cmd/cli.go of tflint: directory discovery (findWorkingDirs),   *)
(* the working-directory switch (withinChangedDir), option dispatch (Run)  *)
(* and the shutdown handler (registerShutdownHandler).                     *)
(*                                                                         *)
(* Path strings are sequences of one-character strings, so that prefix     *)
(* tests, basename and filepath.Clean are computed rather than assumed.    *)
(* A directory of the file system is a sequence of names from the root.    *)
(***************************************************************************)
EXTENDS Integers, Sequences, FiniteSets, TLC

VARIABLES
    \* file system and process-wide current directory
    fsDirs, fsFiles, unreadable, cwd,
    \* findWorkingDirs
    optsChdir, optsRecursive, walkPc, workingDirs, walkErr,
    \* CLI and the tasks calling withinChangedDir
    originalWorkingDir, pc, dir, switched, stepsLeft, procOut, result,
    chdirCalls, procRuns, entered, sameAsCwd, failedAt, restoreFailed, calls,
    \* Run
    runIn, runPc, exitCode, mode,
    \* registerShutdownHandler
    hPc, sigCh, callbacks, delivered, sigsSent

walkVars == <<fsDirs, fsFiles, unreadable, cwd, optsChdir, optsRecursive, walkPc, workingDirs, walkErr>>

guardVars == <<originalWorkingDir, pc, dir, switched, stepsLeft, procOut, result,
               chdirCalls, procRuns, entered, sameAsCwd, failedAt, restoreFailed, calls>>

runVars == <<runIn, runPc, exitCode, mode>>

sigVars == <<hPc, sigCh, callbacks, delivered, sigsSent>>

vars == <<walkVars, guardVars, runVars, sigVars>>

-----------------------------------------------------------------------------
(* Strings *)

Empty  == <<>>
Dot    == <<".">>
DotDot == <<".", ".">>
Slash  == <<"/">>

\* names used in the modelled file system
NameA == <<"a">>
NameB == <<"b">>
NameF == <<"f">>
NameH == <<".", "h">>
NameW == <<"w">>

\* strings.HasPrefix
HasPrefix(s, prefix) ==
    Len(s) >= Len(prefix) /\ SubSeq(s, 1, Len(prefix)) = prefix

\* strings.Split(s, "/")
RECURSIVE SplitSlash(_)
SplitSlash(s) ==
    IF \A i \in 1..Len(s) : s[i] # "/" THEN <<s>>
    ELSE LET i == CHOOSE k \in 1..Len(s) : s[k] = "/" /\ \A j \in 1..(k-1) : s[j] # "/"
         IN  <<SubSeq(s, 1, i-1)>> \o SplitSlash(SubSeq(s, i+1, Len(s)))

\* strings.Join(parts, "/")
RECURSIVE JoinSlash(_)
JoinSlash(parts) ==
    IF parts = <<>> THEN <<>>
    ELSE IF Len(parts) = 1 THEN parts[1]
    ELSE parts[1] \o Slash \o JoinSlash(Tail(parts))

RECURSIVE TrimTrailingSlash(_)
TrimTrailingSlash(s) ==
    IF Len(s) > 1 /\ s[Len(s)] = "/" THEN TrimTrailingSlash(SubSeq(s, 1, Len(s)-1)) ELSE s

\* os.basename, the Name() of the FileInfo that os.Lstat returns
basename(s) ==
    LET t     == TrimTrailingSlash(s)
        parts == SplitSlash(t)
    IN  IF t = Slash THEN t ELSE parts[Len(parts)]

RECURSIVE CleanParts(_, _, _)
CleanParts(parts, stack, rooted) ==
    IF parts = <<>> THEN stack
    ELSE LET c    == Head(parts)
             rest == Tail(parts)
         IN  IF c = Empty \/ c = Dot THEN CleanParts(rest, stack, rooted)
             ELSE IF c = DotDot
                  THEN IF stack # <<>> /\ stack[Len(stack)] # DotDot
                       THEN CleanParts(rest, SubSeq(stack, 1, Len(stack)-1), rooted)
                       ELSE IF rooted THEN CleanParts(rest, stack, rooted)
                       ELSE CleanParts(rest, Append(stack, c), rooted)
                  ELSE CleanParts(rest, Append(stack, c), rooted)

\* filepath.Clean
Clean(s) ==
    IF s = Empty THEN Dot
    ELSE LET rooted == s[1] = "/"
             body   == JoinSlash(CleanParts(SplitSlash(s), <<>>, rooted))
         IN  IF rooted THEN Slash \o body
             ELSE IF body = Empty THEN Dot ELSE body

\* filepath.Join(base, name) for a non-empty base
Join(base, name) == Clean(base \o Slash \o name)

\* byte order of the characters in use
CharRank(c) ==
    CASE c = "." -> 1
      [] c = "/" -> 2
      [] c = "a" -> 3
      [] c = "b" -> 4
      [] c = "f" -> 5
      [] c = "h" -> 6
      [] c = "w" -> 7

RECURSIVE StrLess(_, _)
StrLess(s, t) ==
    IF t = <<>> THEN FALSE
    ELSE IF s = <<>> THEN TRUE
    ELSE IF s[1] # t[1] THEN CharRank(s[1]) < CharRank(t[1])
    ELSE StrLess(Tail(s), Tail(t))

-----------------------------------------------------------------------------
(* File system *)

NoNode  == << <<"?">> >>
FsRoot  == <<>>
HomeDir == <<NameW>>

Parent(node) == IF node = FsRoot THEN FsRoot ELSE SubSeq(node, 1, Len(node)-1)

IsPrefixNode(p, n) == Len(p) <= Len(n) /\ SubSeq(n, 1, Len(p)) = p

\* directories that may exist below the process's start directory /w
CandidateDirs ==
    { <<NameW, NameA>>, <<NameW, NameA, NameB>>, <<NameW, NameA, NameH>>,
      <<NameW, NameH>>, <<NameW, NameH, NameA>> }

\* regular files that may exist
CandidateFiles == { <<NameW, NameF>>, <<NameW, NameA, NameF>> }

FullTree == {FsRoot, HomeDir} \cup CandidateDirs

Trees ==
    { {FsRoot, HomeDir} \cup S : S \in { T \in SUBSET CandidateDirs :
                                           \A n \in T : Parent(n) = HomeDir \/ Parent(n) \in T } }

\* path resolution of the kernel, component by component, from a directory
RECURSIVE ResolveParts(_, _, _)
ResolveParts(dirs, node, parts) ==
    IF node = NoNode \/ parts = <<>> THEN node
    ELSE LET c == Head(parts)
         IN  IF c = Empty \/ c = Dot THEN ResolveParts(dirs, node, Tail(parts))
             ELSE IF c = DotDot THEN ResolveParts(dirs, Parent(node), Tail(parts))
             ELSE IF Append(node, c) \in dirs THEN ResolveParts(dirs, Append(node, c), Tail(parts))
             ELSE NoNode

\* the directory a path string names, seen from directory `from`; the empty
\* path names nothing (ENOENT)
Resolve(dirs, from, s) ==
    IF s = Empty THEN NoNode
    ELSE IF s[1] = "/" THEN ResolveParts(dirs, FsRoot, SplitSlash(s))
    ELSE ResolveParts(dirs, from, SplitSlash(s))

\* absolute path string of a directory, what os.Getwd returns
AbsPath(node) == Slash \o JoinSlash(node)

RECURSIVE SortNames(_)
SortNames(S) ==
    IF S = {} THEN <<>>
    ELSE LET m == CHOOSE x \in S : \A y \in S \ {x} : StrLess(x, y)
         IN  <<m>> \o SortNames(S \ {m})

\* os.ReadDir: the entries of a directory sorted by file name
ReadDir(dirs, files, node) ==
    LET names   == { n[Len(n)] : n \in { x \in dirs \cup files : x # FsRoot /\ Parent(x) = node } }
        sorted  == SortNames(names)
    IN  [ i \in 1..Len(sorted) |->
            [name |-> sorted[i], isDir |-> Append(node, sorted[i]) \in dirs] ]

-----------------------------------------------------------------------------
(* findWorkingDirs *)

NoErr == "nil"

\* the callback with a hidden directory left out of the list but still walked
WalkFnDescends(path, d, err, acc) ==
    IF err # NoErr THEN [ret |-> err, dirs |-> acc]
    ELSE IF ~d.isDir THEN [ret |-> NoErr, dirs |-> acc]
    ELSE IF path # Dot /\ HasPrefix(d.name, Dot) THEN [ret |-> NoErr, dirs |-> acc]
    ELSE [ret |-> NoErr, dirs |-> Append(acc, path)]

\* the callback without the exception for the path "."
WalkFnNoDotException(path, d, err, acc) ==
    IF err # NoErr THEN [ret |-> err, dirs |-> acc]
    ELSE IF ~d.isDir THEN [ret |-> NoErr, dirs |-> acc]
    ELSE IF HasPrefix(d.name, Dot) THEN [ret |-> "SkipDir", dirs |-> acc]
    ELSE [ret |-> NoErr, dirs |-> Append(acc, path)]

\* the callback handed to filepath.WalkDir
WalkFn(path, d, err, acc) ==
    IF err # NoErr THEN [ret |-> err, dirs |-> acc]
    ELSE IF ~d.isDir THEN [ret |-> NoErr, dirs |-> acc]
    ELSE IF path # Dot /\ HasPrefix(d.name, Dot) THEN [ret |-> "SkipDir", dirs |-> acc]
    ELSE [ret |-> NoErr, dirs |-> Append(acc, path)]

RECURSIVE walkDir(_, _, _, _, _, _, _)
RECURSIVE walkEntries(_, _, _, _, _, _, _)

\* filepath.walkDir
walkDir(dirs, files, unread, path, node, d, acc) ==
    LET r == WalkFn(path, d, NoErr, acc)
    IN  IF r.ret # NoErr \/ ~d.isDir
        THEN [ret |-> IF r.ret = "SkipDir" /\ d.isDir THEN NoErr ELSE r.ret, dirs |-> r.dirs]
        ELSE IF node \in unread
        THEN LET r2 == WalkFn(path, d, "EACCES", r.dirs)
             IN  [ret |-> IF r2.ret = "SkipDir" /\ d.isDir THEN NoErr ELSE r2.ret, dirs |-> r2.dirs]
        ELSE walkEntries(dirs, files, unread, path, node, ReadDir(dirs, files, node), r.dirs)

\* the loop of filepath.walkDir over the entries of one directory
walkEntries(dirs, files, unread, path, node, entries, acc) ==
    IF entries = <<>> THEN [ret |-> NoErr, dirs |-> acc]
    ELSE LET d1    == Head(entries)
             path1 == Join(path, d1.name)
             r     == walkDir(dirs, files, unread, path1, Append(node, d1.name), d1, acc)
         IN  IF r.ret = "SkipDir" THEN [ret |-> NoErr, dirs |-> r.dirs]
             ELSE IF r.ret # NoErr THEN r
             ELSE walkEntries(dirs, files, unread, path, node, Tail(entries), r.dirs)

\* filepath.WalkDir
WalkDir(dirs, files, unread, from, root) ==
    LET node == Resolve(dirs, from, root)
        r    == IF node = NoNode
                THEN WalkFn(root, [name |-> Empty, isDir |-> FALSE], "ENOENT", <<>>)
                ELSE walkDir(dirs, files, unread, root, node,
                             [name |-> basename(root), isDir |-> TRUE], <<>>)
    IN  [ret |-> IF r.ret = "SkipDir" THEN NoErr ELSE r.ret, dirs |-> r.dirs]

BaseDir(chdir) == IF chdir = Empty THEN Dot ELSE chdir

\* findWorkingDirs(opts)
findWorkingDirs(dirs, files, unread, from, chdir, recursive) ==
    LET baseDir == BaseDir(chdir)
    IN  IF recursive
        THEN LET r == WalkDir(dirs, files, unread, from, baseDir)
             IN  IF r.ret # NoErr THEN [dirs |-> <<>>, err |-> r.ret]
                 ELSE [dirs |-> r.dirs, err |-> NoErr]
        ELSE [dirs |-> <<baseDir>>, err |-> NoErr]

\* values of --chdir
Bases ==
    { Empty, Dot, <<".", "/">>, DotDot, NameA, NameH, <<".", "/", "a">>,
      <<"a", "/", "b">>, <<".", "h", "/", "a">>, <<"a", "/", ".", ".">>,
      <<"a", "/">>, <<"/", "w">>, <<"/", "w", "/", ".", "h">>, NameB }

Discover ==
    /\ walkPc = "start"
    /\ LET r == findWorkingDirs(fsDirs, fsFiles, unreadable, cwd, optsChdir, optsRecursive)
       IN  /\ workingDirs' = r.dirs
           /\ walkErr' = r.err
    /\ walkPc' = "done"
    /\ UNCHANGED <<fsDirs, fsFiles, unreadable, cwd, optsChdir, optsRecursive>>
    /\ UNCHANGED <<guardVars, runVars, sigVars>>

-----------------------------------------------------------------------------
(* withinChangedDir, called by the tasks of the worker pool *)

NumWorkers == 2
MaxCalls   == 2
BodySteps  == 1

Tasks == 1..NumWorkers

\* directories handed to withinChangedDir
DirArgs ==
    { Empty, Dot, <<".", "/">>, NameA, <<"a", "/", "b">>,
      <<"/", "w", "/", "a", "/", "b">> }

\* an error is the chain of messages that errors.Unwrap walks; nil is <<>>
NilErr     == <<>>
SwitchMsg  == "Failed to switch to a different working directory"
RestoreMsg == "Failed to switch to the original working directory"

\* what proc can do: return nil, return an error, panic
ProcOutcomes ==
    { [kind |-> "return", err |-> NilErr],
      [kind |-> "return", err |-> <<"proc failed">>],
      [kind |-> "panic",  err |-> NilErr] }

NoOutcome == [kind |-> "none", err |-> NilErr]

\* os.Chdir: fails when the path names no directory, and can fail although
\* it does (permissions, directory removed while the process runs)
ChdirResults(target) == IF target = NoNode THEN {"ENOENT"} ELSE {NoErr, "EACCES"}

\* the guard `dir != "." && dir != ""`
NeedsSwitchDotOnly(d) == d # Dot

NeedsSwitch(d) == d # Dot /\ d # Empty

\* the error returned when the first os.Chdir fails
SwitchFailResult(chErr) == [kind |-> "return", err |-> <<SwitchMsg, chErr>>]

\* where the call goes after the first os.Chdir
AfterSwitchIgnoringError(chErr) == "proc"

AfterSwitch(chErr) == IF chErr # NoErr THEN "returned" ELSE "proc"

\* the directory the deferred function switches back to
RestoreDirParent(cliOriginalWorkingDir) == DotDot

RestoreDir(cliOriginalWorkingDir) == cliOriginalWorkingDir

\* the named result after the deferred function: fmt.Errorf("...; %s; %w", chErr, err)
RestoreResultKeepsErr(chErr, err) == err

RestoreResult(chErr, err) == IF chErr # NoErr THEN <<RestoreMsg>> \o err ELSE err

\* NewCLI: the working directory recorded at construction
NewCLI(wd) == AbsPath(wd)

\* a task calls withinChangedDir(d, proc)
Call(t, d) ==
    /\ pc[t] = "idle"
    /\ calls < MaxCalls
    /\ calls' = calls + 1
    /\ pc' = [pc EXCEPT ![t] = "entry"]
    /\ dir' = [dir EXCEPT ![t] = d]
    /\ switched' = [switched EXCEPT ![t] = FALSE]
    /\ stepsLeft' = [stepsLeft EXCEPT ![t] = BodySteps]
    /\ procOut' = [procOut EXCEPT ![t] = NoOutcome]
    /\ result' = [result EXCEPT ![t] = NoOutcome]
    /\ chdirCalls' = [chdirCalls EXCEPT ![t] = 0]
    /\ procRuns' = [procRuns EXCEPT ![t] = 0]
    /\ entered' = [entered EXCEPT ![t] = NoNode]
    /\ sameAsCwd' = [sameAsCwd EXCEPT ![t] = Resolve(fsDirs, cwd, d) = cwd]
    /\ failedAt' = [failedAt EXCEPT ![t] = "none"]
    /\ UNCHANGED <<originalWorkingDir, restoreFailed>>
    /\ UNCHANGED <<walkVars, runVars, sigVars>>

\* lines 202-213: the switch into dir and the registration of the restore
Switch(t) ==
    /\ pc[t] = "entry"
    /\ IF NeedsSwitch(dir[t])
       THEN LET target == Resolve(fsDirs, cwd, dir[t])
            IN  \E chErr \in ChdirResults(target) :
                  /\ chdirCalls' = [chdirCalls EXCEPT ![t] = @ + 1]
                  /\ pc' = [pc EXCEPT ![t] = AfterSwitch(chErr)]
                  /\ IF chErr # NoErr
                     THEN /\ failedAt' = [failedAt EXCEPT ![t] = "switch"]
                          /\ result' = [result EXCEPT ![t] =
                                IF AfterSwitch(chErr) = "returned" THEN SwitchFailResult(chErr) ELSE @]
                          /\ procRuns' = [procRuns EXCEPT ![t] =
                                IF AfterSwitch(chErr) = "proc" THEN @ + 1 ELSE @]
                          /\ UNCHANGED <<cwd, switched, entered>>
                     ELSE /\ cwd' = target
                          /\ switched' = [switched EXCEPT ![t] = TRUE]
                          /\ entered' = [entered EXCEPT ![t] = target]
                          /\ procRuns' = [procRuns EXCEPT ![t] = @ + 1]
                          /\ UNCHANGED <<failedAt, result>>
       ELSE /\ pc' = [pc EXCEPT ![t] = "proc"]
            /\ procRuns' = [procRuns EXCEPT ![t] = @ + 1]
            /\ UNCHANGED <<cwd, switched, entered, failedAt, result, chdirCalls>>
    /\ UNCHANGED <<fsDirs, fsFiles, unreadable, optsChdir, optsRecursive, walkPc, workingDirs, walkErr>>
    /\ UNCHANGED <<originalWorkingDir, dir, stepsLeft, procOut, sameAsCwd, restoreFailed, calls>>
    /\ UNCHANGED <<runVars, sigVars>>

\* line 215: one step of proc
ProcStep(t) ==
    /\ pc[t] = "proc"
    /\ stepsLeft[t] > 0
    /\ stepsLeft' = [stepsLeft EXCEPT ![t] = @ - 1]
    /\ UNCHANGED <<originalWorkingDir, pc, dir, switched, procOut, result, chdirCalls,
                   procRuns, entered, sameAsCwd, failedAt, restoreFailed, calls>>
    /\ UNCHANGED <<walkVars, runVars, sigVars>>

\* line 215: proc returns or panics
ProcEnd(t, out) ==
    /\ pc[t] = "proc"
    /\ stepsLeft[t] = 0
    /\ procOut' = [procOut EXCEPT ![t] = out]
    /\ pc' = [pc EXCEPT ![t] = "exit"]
    /\ UNCHANGED <<originalWorkingDir, dir, switched, stepsLeft, result, chdirCalls,
                   procRuns, entered, sameAsCwd, failedAt, restoreFailed, calls>>
    /\ UNCHANGED <<walkVars, runVars, sigVars>>

\* lines 207-212: the deferred function, run when proc has returned or
\* panicked, then the return (or the propagation of the panic)
Exit(t) ==
    /\ pc[t] = "exit"
    /\ IF switched[t]
       THEN LET target == Resolve(fsDirs, cwd, RestoreDir(originalWorkingDir))
            IN  \E chErr \in ChdirResults(target) :
                  /\ chdirCalls' = [chdirCalls EXCEPT ![t] = @ + 1]
                  /\ cwd' = IF chErr = NoErr THEN target ELSE cwd
                  /\ restoreFailed' = (restoreFailed \/ chErr # NoErr)
                  /\ failedAt' = [failedAt EXCEPT ![t] = IF chErr # NoErr THEN "restore" ELSE @]
                  /\ result' = [result EXCEPT ![t] =
                        [kind |-> procOut[t].kind, err |-> RestoreResult(chErr, procOut[t].err)]]
       ELSE /\ result' = [result EXCEPT ![t] = procOut[t]]
            /\ UNCHANGED <<cwd, chdirCalls, restoreFailed, failedAt>>
    /\ pc' = [pc EXCEPT ![t] = "returned"]
    /\ UNCHANGED <<fsDirs, fsFiles, unreadable, optsChdir, optsRecursive, walkPc, workingDirs, walkErr>>
    /\ UNCHANGED <<originalWorkingDir, dir, switched, stepsLeft, procOut, procRuns,
                   entered, sameAsCwd, calls>>
    /\ UNCHANGED <<runVars, sigVars>>

\* the caller takes the result and the frame of the call is gone; the task
\* is free for its next directory
Finish(t) ==
    /\ pc[t] = "returned"
    /\ pc' = [pc EXCEPT ![t] = "idle"]
    /\ dir' = [dir EXCEPT ![t] = Empty]
    /\ switched' = [switched EXCEPT ![t] = FALSE]
    /\ stepsLeft' = [stepsLeft EXCEPT ![t] = 0]
    /\ procOut' = [procOut EXCEPT ![t] = NoOutcome]
    /\ result' = [result EXCEPT ![t] = NoOutcome]
    /\ chdirCalls' = [chdirCalls EXCEPT ![t] = 0]
    /\ procRuns' = [procRuns EXCEPT ![t] = 0]
    /\ entered' = [entered EXCEPT ![t] = NoNode]
    /\ sameAsCwd' = [sameAsCwd EXCEPT ![t] = FALSE]
    /\ failedAt' = [failedAt EXCEPT ![t] = "none"]
    /\ UNCHANGED <<originalWorkingDir, restoreFailed, calls>>
    /\ UNCHANGED <<walkVars, runVars, sigVars>>

-----------------------------------------------------------------------------
(* Run *)

ExitCodeOK          == 0
ExitCodeError       == 1
ExitCodeIssuesFound == 2

ExitCodes == {ExitCodeOK, ExitCodeError, ExitCodeIssuesFound}

\* opts.MaxWorkers is a *int: <<>> is nil, <<n>> points to n
MaxWorkersValues == { <<>>, <<-1>>, <<0>>, <<1>>, <<2>> }

\* what decides the path through Run: the result of parser.ParseArgs, the
\* number of remaining arguments, the result of tflint.LoadConfig, the options
RunInputs ==
    [ parse      : {"ok", "help", "error"},
      nargs      : {0, 1, 2},
      configOk   : BOOLEAN,
      maxWorkers : MaxWorkersValues,
      version    : BOOLEAN,
      init       : BOOLEAN,
      langserver : BOOLEAN,
      plugin     : BOOLEAN,
      recursive  : BOOLEAN ]

\* the check with the comparison off by one
InvalidMaxWorkersNegativeOnly(mw) == mw # <<>> /\ mw[1] < 0

\* opts.MaxWorkers != nil && *opts.MaxWorkers <= 0
InvalidMaxWorkers(mw) == mw # <<>> /\ mw[1] <= 0

\* the switch at the end of Run
Dispatch(in) ==
    IF in.version THEN "printVersion"
    ELSE IF in.init THEN "init"
    ELSE IF in.langserver THEN "startLanguageServer"
    ELSE IF in.plugin THEN "actAsBundledPlugin"
    ELSE IF in.recursive THEN "inspectParallel"
    ELSE "inspect"

\* the early returns of Run; "callee" stands for the code of the mode started
RunDecision(in) ==
    IF in.parse = "help" THEN [mode |-> "none", exit |-> {ExitCodeOK}]
    ELSE IF in.parse = "error" THEN [mode |-> "none", exit |-> {ExitCodeError}]
    ELSE IF in.nargs > 1 THEN [mode |-> "none", exit |-> {ExitCodeError}]
    ELSE IF ~in.configOk THEN [mode |-> "none", exit |-> {ExitCodeError}]
    ELSE IF InvalidMaxWorkers(in.maxWorkers) THEN [mode |-> "none", exit |-> {ExitCodeError}]
    ELSE [mode |-> Dispatch(in), exit |-> ExitCodes]

Run ==
    /\ runPc = "start"
    /\ LET r == RunDecision(runIn)
       IN  /\ mode' = r.mode
           /\ \E code \in r.exit : exitCode' = code
    /\ runPc' = "done"
    /\ UNCHANGED runIn
    /\ UNCHANGED <<walkVars, guardVars, sigVars>>

-----------------------------------------------------------------------------
(* registerShutdownHandler *)

NumHandlers == 2
MaxSignals  == 3

\* make(chan os.Signal, 1)
ShutdownChCap == 1

Handlers == 1..NumHandlers

\* signal.Notify(ch, os.Interrupt, syscall.SIGTERM)
Signals == {"interrupt", "terminated"}

\* os/signal never blocks sending to the channel: a signal that finds the
\* buffer full is dropped
ChanSend(ch, sig) == IF Len(ch) < ShutdownChCap THEN Append(ch, sig) ELSE ch

\* where the handler goes after callback()
AfterCallbackLoops == "waiting"

AfterCallback == "done"

\* registerShutdownCh: the channel is made and registered
Register(h) ==
    /\ hPc[h] = "start"
    /\ hPc' = [hPc EXCEPT ![h] = "waiting"]
    /\ UNCHANGED <<sigCh, callbacks, delivered, sigsSent>>
    /\ UNCHANGED <<walkVars, guardVars, runVars>>

\* the process receives a termination signal
Signal(sig) ==
    /\ sigsSent < MaxSignals
    /\ sigsSent' = sigsSent + 1
    /\ sigCh' = [h \in Handlers |-> IF hPc[h] # "start" THEN ChanSend(sigCh[h], sig) ELSE sigCh[h]]
    /\ delivered' = [h \in Handlers |-> IF hPc[h] # "start" THEN delivered[h] + 1 ELSE delivered[h]]
    /\ UNCHANGED <<hPc, callbacks>>
    /\ UNCHANGED <<walkVars, guardVars, runVars>>

\* sig := <-ch
Receive(h) ==
    /\ hPc[h] = "waiting"
    /\ sigCh[h] # <<>>
    /\ sigCh' = [sigCh EXCEPT ![h] = Tail(@)]
    /\ hPc' = [hPc EXCEPT ![h] = "received"]
    /\ UNCHANGED <<callbacks, delivered, sigsSent>>
    /\ UNCHANGED <<walkVars, guardVars, runVars>>

\* the message on errStream, then callback()
Callback(h) ==
    /\ hPc[h] = "received"
    /\ callbacks' = [callbacks EXCEPT ![h] = @ + 1]
    /\ hPc' = [hPc EXCEPT ![h] = AfterCallback]
    /\ UNCHANGED <<sigCh, delivered, sigsSent>>
    /\ UNCHANGED <<walkVars, guardVars, runVars>>

-----------------------------------------------------------------------------
(* Initial states *)

WalkOff ==
    /\ optsChdir = Empty
    /\ optsRecursive = FALSE
    /\ walkPc = "off"
    /\ workingDirs = <<>>
    /\ walkErr = NoErr

FsFixed ==
    /\ fsDirs = FullTree
    /\ fsFiles = {}
    /\ unreadable = {}
    /\ cwd = HomeDir

GuardInit ==
    /\ originalWorkingDir = NewCLI(cwd)
    /\ pc = [t \in Tasks |-> "idle"]
    /\ dir = [t \in Tasks |-> Empty]
    /\ switched = [t \in Tasks |-> FALSE]
    /\ stepsLeft = [t \in Tasks |-> 0]
    /\ procOut = [t \in Tasks |-> NoOutcome]
    /\ result = [t \in Tasks |-> NoOutcome]
    /\ chdirCalls = [t \in Tasks |-> 0]
    /\ procRuns = [t \in Tasks |-> 0]
    /\ entered = [t \in Tasks |-> NoNode]
    /\ sameAsCwd = [t \in Tasks |-> FALSE]
    /\ failedAt = [t \in Tasks |-> "none"]
    /\ restoreFailed = FALSE
    /\ calls = 0

RunOff ==
    /\ runIn = [parse |-> "ok", nargs |-> 0, configOk |-> TRUE, maxWorkers |-> <<>>,
                version |-> FALSE, init |-> FALSE, langserver |-> FALSE,
                plugin |-> FALSE, recursive |-> FALSE]
    /\ runPc = "off"
    /\ exitCode = ExitCodeOK
    /\ mode = "none"

SigOff ==
    /\ hPc = [h \in Handlers |-> "start"]
    /\ sigCh = [h \in Handlers |-> <<>>]
    /\ callbacks = [h \in Handlers |-> 0]
    /\ delivered = [h \in Handlers |-> 0]
    /\ sigsSent = 0

InitWalk ==
    /\ fsDirs \in Trees
    /\ fsFiles \in SUBSET { f \in CandidateFiles : Parent(f) \in fsDirs }
    /\ unreadable \in { {} } \cup { {n} : n \in fsDirs \ {FsRoot} }
    /\ cwd = HomeDir
    /\ optsChdir \in Bases
    /\ optsRecursive \in BOOLEAN
    /\ walkPc = "start"
    /\ workingDirs = <<>>
    /\ walkErr = NoErr
    /\ GuardInit /\ RunOff /\ SigOff

InitRun ==
    /\ FsFixed /\ WalkOff /\ GuardInit /\ SigOff
    /\ runIn \in RunInputs
    /\ runPc = "start"
    /\ exitCode = ExitCodeOK
    /\ mode = "none"

Init == FsFixed /\ WalkOff /\ GuardInit /\ RunOff /\ SigOff

NextWalk == Discover

NextRun == Run

NextSig ==
    \/ \E h \in Handlers : Register(h)
    \/ \E sig \in Signals : Signal(sig)
    \/ \E h \in Handlers : Receive(h)
    \/ \E h \in Handlers : Callback(h)

Next ==
    \/ \E t \in Tasks, d \in DirArgs : Call(t, d)
    \/ \E t \in Tasks : Switch(t)
    \/ \E t \in Tasks : ProcStep(t)
    \/ \E t \in Tasks, out \in ProcOutcomes : ProcEnd(t, out)
    \/ \E t \in Tasks : Exit(t)
    \/ \E t \in Tasks : Finish(t)

\* discovery of the working directories
SpecWalk == InitWalk /\ [][NextWalk]_vars

\* one invocation of Run
SpecRun == InitRun /\ [][NextRun]_vars

\* shutdown handlers and the signals of the process
SpecSig == Init /\ [][NextSig]_vars

\* the tasks of the worker pool calling withinChangedDir
Spec == Init /\ [][Next]_vars

-----------------------------------------------------------------------------
(* Properties of withinChangedDir *)

\* a task is between its successful switch and its restoration
Inside(t) == switched[t] /\ pc[t] \in {"proc", "exit"}

Quiescent == \A t \in Tasks : pc[t] \in {"idle", "returned"}

\* C1: at most one task at a time is between its successful switch into its
\* directory and the restoration of the original directory.
C1_MutualExclusion == Cardinality({ t \in Tasks : Inside(t) }) <= 1

\* C2: while the body of a call that switched runs, the current directory of
\* the process is the directory that call switched into.
C2_BodySeesOwnDir ==
    \A t \in Tasks : (pc[t] = "proc" /\ switched[t]) => cwd = entered[t]

C3_RestoredState ==
    /\ \A t \in Tasks : (pc[t] = "returned" /\ switched[t]) => chdirCalls[t] = 2
    /\ (Quiescent /\ ~restoreFailed) => AbsPath(cwd) = originalWorkingDir

C3_RestoredStep ==
    \A t \in Tasks :
        (pc[t] = "exit" /\ pc'[t] = "returned" /\ switched[t] /\ failedAt'[t] # "restore") =>
            AbsPath(cwd') = originalWorkingDir

\* C3: a call that switched attempts the restoration on every exit path of
\* the body (nil, error, panic); a restoration that does not fail leaves the
\* process in the directory recorded by NewCLI when the call returns; and when
\* no call is in flight and no restoration has failed, the current directory
\* is the one recorded by NewCLI.
C3_Restored == []C3_RestoredState /\ [][C3_RestoredStep]_vars

C3_Witness ==
    /\ Quiescent /\ ~restoreFailed
    /\ \E t \in Tasks : /\ pc[t] = "returned" /\ switched[t]
                        /\ dir[t] = <<"a", "/", "b">>
                        /\ result[t].kind = "panic"

C4_FailedSwitchState ==
    \A t \in Tasks :
        failedAt[t] = "switch" =>
            /\ pc[t] = "returned"
            /\ result[t].kind = "return"
            /\ result[t].err # NilErr
            /\ result[t].err[1] = SwitchMsg
            /\ procRuns[t] = 0
            /\ chdirCalls[t] = 1
            /\ ~switched[t]

C4_FailedSwitchStep ==
    \A t \in Tasks : (failedAt[t] # "switch" /\ failedAt'[t] = "switch") => cwd' = cwd

\* C4: when the switch into dir fails, the call returns the switch error, the
\* body has not run, only the one failed os.Chdir was made (no restoration),
\* and the failing step leaves the current directory as it was.
C4_FailedSwitch == []C4_FailedSwitchState /\ [][C4_FailedSwitchStep]_vars

C4_Witness ==
    \E t \in Tasks : /\ failedAt[t] = "switch" /\ pc[t] = "returned"
                     /\ dir[t] = <<"a", "/", "b">>
                     /\ cwd = HomeDir

\* C5: when the restoration fails after a successful switch and the body
\* returned, the result is a non-nil error that starts with the restoration
\* message and wraps exactly what the body returned.
C5_RestoreFailure ==
    \A t \in Tasks :
        (pc[t] = "returned" /\ failedAt[t] = "restore" /\ procOut[t].kind = "return") =>
            /\ result[t].kind = "return"
            /\ result[t].err # NilErr
            /\ result[t].err[1] = RestoreMsg
            /\ Tail(result[t].err) = procOut[t].err

C5_Witness ==
    \E t \in Tasks : /\ pc[t] = "returned" /\ failedAt[t] = "restore"
                     /\ procOut[t].kind = "return" /\ procOut[t].err # NilErr
                     /\ Len(result[t].err) = 2

\* C10 as stated: a call with the empty path or a path that names the
\* directory that is current at the call makes no os.Chdir, runs the body
\* once and returns its result unmodified.
C10_NoOpForCurrentDir ==
    \A t \in Tasks :
        (pc[t] = "returned" /\ (dir[t] = Empty \/ sameAsCwd[t])) =>
            /\ chdirCalls[t] = 0
            /\ procRuns[t] = 1
            /\ result[t] = procOut[t]

\* C10 amended: a call with the empty path or the path "." makes no os.Chdir
\* (no switch, no restoration), runs the body once and returns its result
\* unmodified.
C10_NoOpForDotOrEmpty ==
    \A t \in Tasks :
        (pc[t] = "returned" /\ dir[t] \in {Empty, Dot}) =>
            /\ chdirCalls[t] = 0
            /\ ~switched[t]
            /\ procRuns[t] = 1
            /\ result[t] = procOut[t]

C10_Witness ==
    \E t \in Tasks : /\ pc[t] = "returned" /\ dir[t] = Empty
                     /\ procRuns[t] = 1 /\ result[t].err # NilErr

-----------------------------------------------------------------------------
(* Properties of findWorkingDirs *)

BaseNode == Resolve(fsDirs, cwd, BaseDir(optsChdir))

ResultNodes == { Resolve(fsDirs, cwd, workingDirs[i]) : i \in 1..Len(workingDirs) }

\* a directory at or below the base with a hidden name strictly below the base
HiddenBelowBase(n) == \E k \in (Len(BaseNode) + 1)..Len(n) : HasPrefix(n[k], Dot)

\* the base and the directories below it reachable without passing a hidden one
VisibleDirs == { n \in fsDirs : IsPrefixNode(BaseNode, n) /\ ~HiddenBelowBase(n) }

\* the base is "." or its last element does not start with "."
BaseNotHidden == BaseDir(optsChdir) = Dot \/ ~HasPrefix(basename(BaseDir(optsChdir)), Dot)

\* C6: a recursive run returns no path whose last element starts with "."
\* except the path ".", and no path at or below a hidden directory of the walk.
C6_NoHiddenDirs ==
    (walkPc = "done" /\ optsRecursive) =>
        \A i \in 1..Len(workingDirs) :
            LET n == Resolve(fsDirs, cwd, workingDirs[i])
            IN  /\ HasPrefix(basename(workingDirs[i]), Dot) => workingDirs[i] = Dot
                /\ n # NoNode
                /\ IsPrefixNode(BaseNode, n)
                /\ ~HiddenBelowBase(n)

C6_Witness ==
    /\ walkPc = "done" /\ optsRecursive /\ walkErr = NoErr
    /\ optsChdir = Dot
    /\ <<NameW, NameH, NameA>> \in fsDirs
    /\ <<NameW, NameA, NameH>> \in fsDirs
    /\ Len(workingDirs) = 3

\* C7 as stated: a recursive run without walk error returns the base and
\* every directory below it that has no hidden directory on the way, each once.
C7_AllVisibleDirs ==
    (walkPc = "done" /\ optsRecursive /\ walkErr = NoErr) =>
        /\ ResultNodes = VisibleDirs
        /\ Len(workingDirs) = Cardinality(VisibleDirs)
        /\ BaseNode \in ResultNodes

\* C7 amended: the same when the base is "." or its last element does not
\* start with "."; for any other base (".hidden", "..", "./") the list is empty.
C7_AllVisibleDirsUnlessBaseHidden ==
    (walkPc = "done" /\ optsRecursive /\ walkErr = NoErr) =>
        IF BaseNotHidden
        THEN /\ ResultNodes = VisibleDirs
             /\ Len(workingDirs) = Cardinality(VisibleDirs)
             /\ workingDirs[1] = BaseDir(optsChdir)
        ELSE workingDirs = <<>>

C7_Witness ==
    /\ walkPc = "done" /\ optsRecursive /\ walkErr = NoErr
    /\ optsChdir = Empty
    /\ fsFiles = {}
    /\ Len(workingDirs) = 3

-----------------------------------------------------------------------------
(* Properties of Run *)

\* C8 as stated: with --max-workers <= 0, Run returns ExitCodeError and starts
\* no mode, whatever the other options.
C8_MaxWorkersRejected ==
    (runPc = "done" /\ runIn.maxWorkers \in {<<-1>>, <<0>>}) =>
        /\ exitCode = ExitCodeError
        /\ mode = "none"

\* C8 amended: with --max-workers <= 0, Run starts no mode and returns
\* ExitCodeError, except that a help request returns ExitCodeOK.
C8_MaxWorkersRejectedUnlessHelp ==
    (runPc = "done" /\ runIn.maxWorkers # <<>> /\ runIn.maxWorkers[1] <= 0) =>
        /\ mode = "none"
        /\ exitCode = IF runIn.parse = "help" THEN ExitCodeOK ELSE ExitCodeError

C8_Witness ==
    /\ runPc = "done"
    /\ runIn.maxWorkers = <<0>>
    /\ runIn.parse = "ok" /\ runIn.nargs = 0 /\ runIn.configOk
    /\ runIn.version /\ runIn.recursive
    /\ exitCode = ExitCodeError /\ mode = "none"

-----------------------------------------------------------------------------
(* Properties of registerShutdownHandler *)

\* C9: a handler calls its callback at most once and only after a signal was
\* delivered to it; a delivered signal leaves a waiting handler something to
\* receive; and a further signal can always be delivered, whatever the
\* handlers are doing and however full their channels are.
C9_ShutdownOnce ==
    /\ \A h \in Handlers :
          /\ callbacks[h] <= 1
          /\ callbacks[h] > 0 => delivered[h] > 0
          /\ (hPc[h] = "waiting" /\ delivered[h] > 0) => sigCh[h] # <<>>
          /\ Len(sigCh[h]) <= ShutdownChCap
    /\ sigsSent < MaxSignals => ENABLED (\E sig \in Signals : Signal(sig))

C9_Witness ==
    \E h \in Handlers : /\ hPc[h] = "done" /\ callbacks[h] = 1
                        /\ delivered[h] >= 2
                        /\ Len(sigCh[h]) = ShutdownChCap

====
